---- MODULE Spec2Model ----
(***************************************************************************)
(* The interactive quiz session of cli/bijbelquiz_cli.py: QuizGame.start,  *)
(* play_round, get_user_input and end_game, with the two Gateway calls the *)
(* game makes (questions, stars/add) and the user's inputs and interrupts. *)
(*                                                                         *)
(* The program is single-threaded.  Its state is observed at the points    *)
(* where it blocks: the sleeps, the input() prompts and the two network    *)
(* calls.  A KeyboardInterrupt is delivered while the program is blocked   *)
(* at one of these points; which handler receives it depends on the point. *)
(*                                                                         *)
(* Text (what the user types, a textual difficulty) is a sequence of       *)
(* one-character strings, so that strip(), lower(), str() and int() are    *)
(* computed and not assumed.                                               *)
(***************************************************************************)
EXTENDS Integers, Sequences, FiniteSets, TLC

\* Largest number of questions one fetch returns.
MaxQuestions == 3
\* Largest number of consecutive rejected inputs at one prompt.
MaxReprompts == 2

VARIABLES
    pc,               \* where the program is blocked, or "returned" / "exited"
    result,           \* what get_questions returned to start
    num_questions,    \* len(questions) of the fetched batch
    i,                \* the loop index of start's for loop (1-based)
    question,         \* the QuizQuestion of the round being played
    user_input,       \* the last value read by get_user_input, stripped and lowered
    reprompts,        \* rejected inputs at the current prompt
    is_correct,       \* play_round's is_correct of the last scored round
    score, total_questions, correct_answers, stars_earned,
    in_handler,       \* end_game runs from start's except KeyboardInterrupt clause
    end_game_runs,    \* how many times end_game was entered
    submissions,      \* the add_stars calls made, in order
    post_result,      \* the outcome of the last stars/add call
    messages,         \* kinds of messages printed at the end of the session
    exit_status,      \* "none", or the status sys.exit was called with
    difficulty_sum,   \* history: the difficulties of the rounds answered correctly, summed
    presented,        \* how many questions were displayed
    stopped,          \* the user answered n/no to the continue prompt
    interrupts,       \* history: the points at which interrupts arrived
    pre,              \* the counters when the current round started
    accuracy,         \* end_game's accuracy as printed, in tenths of a percent
    on_scenario,      \* history: the rounds scored so far are the first of Scenario
    command,          \* args.command (with args.stars_command) of this run of main
    attempts,         \* requests a command outside the game has sent
    cmd_result        \* the outcome of that command's Gateway call

counters == <<score, total_questions, correct_answers, stars_earned>>

vars == <<pc, result, num_questions, i, question, user_input, reprompts, is_correct,
          score, total_questions, correct_answers, stars_earned,
          in_handler, end_game_runs, submissions, post_result, messages,
          exit_status, difficulty_sum, presented, stopped, interrupts, pre,
          accuracy, on_scenario, command, attempts, cmd_result>>

----------------------------------------------------------------------------
(* Text *)

DigitChars == <<"0", "1", "2", "3", "4", "5", "6", "7", "8", "9">>

IsDigit(c) == \E v \in 1..Len(DigitChars) : DigitChars[v] = c

DigitValue(c) == (CHOOSE v \in 1..Len(DigitChars) : DigitChars[v] = c) - 1

\* str(n) for n >= 0
RECURSIVE Str(_)
Str(n) ==
    IF n < Len(DigitChars)
    THEN <<DigitChars[n + 1]>>
    ELSE Str(n \div Len(DigitChars)) \o <<DigitChars[(n % Len(DigitChars)) + 1]>>

\* int(s) for a non-empty string of decimal digits
RECURSIVE IntOf(_)
IntOf(s) ==
    IF Len(s) = 1
    THEN DigitValue(s[1])
    ELSE IntOf(SubSeq(s, 1, Len(s) - 1)) * Len(DigitChars) + DigitValue(s[Len(s)])

\* str.strip(): leading and trailing blanks removed
RECURSIVE Strip(_)
Strip(s) ==
    IF s = <<>> THEN s
    ELSE IF Head(s) = " " THEN Strip(Tail(s))
    ELSE IF s[Len(s)] = " " THEN Strip(SubSeq(s, 1, Len(s) - 1))
    ELSE s

LowerChar(c) ==
    CASE c = "Y" -> "y"
      [] c = "N" -> "n"
      [] c = "E" -> "e"
      [] c = "S" -> "s"
      [] c = "O" -> "o"
      [] OTHER -> c

\* str.lower()
Lower(s) == [k \in 1..Len(s) |-> LowerChar(s[k])]

\* What the user may type at a prompt (before strip and lower).
RawInputs ==
    { <<"1">>, <<"2">>, <<"3">>, <<"4">>, <<"5">>, <<"0">>,
      <<" ", "2", " ">>, <<"0", "3">>, <<"a">>, <<>>,
      <<"y">>, <<"Y", "E", "S">>, <<"n">>, <<"N", "o">> }

----------------------------------------------------------------------------
(* Question records *)

OptionLabels == <<"a", "b", "c", "d">>

\* The lengths of allOptions the Gateway sends.
OptionCounts == {2, Len(OptionLabels)}

\* A difficulty arrives as an integer or as its text.
DifficultyForms(d) ==
    { [is_str |-> FALSE, num |-> d, text |-> <<>>],
      [is_str |-> TRUE, num |-> 0, text |-> Str(d)] }

NoQuestion ==
    [wellformed |-> FALSE, difficulty |-> [is_str |-> FALSE, num |-> 0, text |-> <<>>],
     allOptions |-> <<>>, correctAnswerIndex |-> 0]

\* The difficulty levels of the data model.
Difficulties == 1..5

\* The well-formed records of a batch: difficulty 1..5 in either form,
\* correctAnswerIndex a valid index of allOptions.
WellFormedRecords ==
    { q \in [wellformed : {TRUE},
             difficulty : UNION { DifficultyForms(d) : d \in Difficulties },
             allOptions : { SubSeq(OptionLabels, 1, n) : n \in OptionCounts },
             correctAnswerIndex : 0..(Len(OptionLabels) - 1)] :
        q.correctAnswerIndex < Len(q.allOptions) }

\* What one element of result['questions'] may be: a well-formed record, or
\* one that QuizQuestion(**question_data) rejects (a missing or unexpected
\* key), written NoQuestion.
GatewayRecords == WellFormedRecords \cup {NoQuestion}

----------------------------------------------------------------------------
(* The pure parts of get_user_input, play_round and end_game *)

Range(f) == { f[k] : k \in DOMAIN f }

\* Before get_questions has returned.
NoResult == [status |-> "none", has_questions |-> FALSE, len |-> 0]

\* What the questions call may answer with: a result without 'questions', or
\* one whose 'questions' holds 0..MaxQuestions records.
FetchResults ==
    { [status |-> "ok", has_questions |-> FALSE, len |-> 0] } \cup
    { [status |-> "ok", has_questions |-> TRUE, len |-> n] : n \in 0..MaxQuestions }

\* As NoQuestionsAvailable, without the test for an empty list.
NoQuestionsAvailableMut(r) == ~r.has_questions

\* start: 'questions' not in result or not result['questions']
NoQuestionsAvailable(r) == ~r.has_questions \/ r.len = 0

\* As ValidChoices, with range(1, len(allOptions) + 2).
ValidChoicesMut(q) == [k \in 1..(Len(q.allOptions) + 1) |-> Str(k)]

\* play_round: valid_choices = [str(i) for i in range(1, len(allOptions) + 1)]
ValidChoices(q) == [k \in 1..Len(q.allOptions) |-> Str(k)]

\* start: the choices of the continue prompt
ContinueChoices == << <<"y">>, <<"n">>, <<"y", "e", "s">>, <<"n", "o">> >>

\* start: continue_game in ['n', 'no']
StopChoices == { <<"n">>, <<"n", "o">> }

\* get_user_input: input(prompt).strip().lower()
ReadInput(raw) == Lower(Strip(raw))

\* get_user_input: the input is returned (not re-prompted)
Accepted(input, valid_choices) ==
    ~(valid_choices # <<>> /\ input \notin Range(valid_choices))

\* As UserAnswerIndex, without the conversion to a 0-based index.
UserAnswerIndexMut(choice) == IntOf(choice)

\* play_round: user_answer_index = int(choice) - 1
UserAnswerIndex(choice) == IntOf(choice) - 1

\* play_round: is_correct = user_answer_index == question.correctAnswerIndex
IsCorrect(choice, q) == UserAnswerIndex(choice) = q.correctAnswerIndex

\* As CoerceDifficulty, without the coercion of a textual difficulty.
CoerceDifficultyMut(q) == q.difficulty.num

\* play_round: difficulty coerced to int when it is a str
CoerceDifficulty(q) ==
    IF q.difficulty.is_str THEN IntOf(q.difficulty.text) ELSE q.difficulty.num

\* As Points, without the factor.
PointsMut(q) == CoerceDifficulty(q)

\* play_round: points = difficulty * 10
Points(q) == CoerceDifficulty(q) * 10

\* As Stars, with one star for every correct answer.
StarsMut(q, correct) == IF correct THEN 1 ELSE 0

\* play_round: stars_earned = difficulty if is_correct else 0
Stars(q, correct) == IF correct THEN CoerceDifficulty(q) ELSE 0

\* end_game: the reason string, by the two counts it embeds
Reason(correct, total) ==
    [text |-> "Quiz game completed", correct |-> correct, total |-> total]

\* end_game: the add_stars call (no lesson id in the game flow)
RewardSubmission ==
    [amount |-> stars_earned, reason |-> Reason(correct_answers, total_questions)]

\* "{accuracy:.1f}": the nearest tenth, a tie going to the even one
RoundHalfEven(num, den) ==
    LET q == num \div den
        r == num % den
    IN  IF 2 * r < den THEN q
        ELSE IF 2 * r > den THEN q + 1
        ELSE IF q % 2 = 0 THEN q ELSE q + 1

\* As AccuracyTenths, with the integer division // for /.
AccuracyTenthsMut(correct, total) ==
    IF total > 0 THEN ((correct * 100) \div total) * 10 ELSE 0

\* end_game: accuracy = (correct / total * 100) if total > 0 else 0, as it
\* is printed with one decimal, in tenths
AccuracyTenths(correct, total) ==
    IF total > 0 THEN RoundHalfEven(correct * 1000, total) ELSE 0

\* The session of the spec's example: difficulties 2, 3, 1, answered
\* correctly, incorrectly, correctly.
Scenario ==
    << [difficulty |-> 2, correct |-> TRUE],
       [difficulty |-> 3, correct |-> FALSE],
       [difficulty |-> 1, correct |-> TRUE] >>

\* Round k, of the given difficulty and outcome, is round k of Scenario.
FollowsScenario(k, difficulty, correct) ==
    /\ k \in 1..Len(Scenario)
    /\ Scenario[k] = [difficulty |-> difficulty, correct |-> correct]

\* main: the subcommands; those of the stars group carry their own name.
Commands ==
    {"game", "health", "questions", "progress", "stats", "settings",
     "stars_balance", "stars_add", "stars_spend", "stars_transactions", "stars_stats"}

\* As AwardsStars, with >= for >.
AwardsStarsMut == stars_earned >= 0

\* end_game: if self.stars_earned > 0
AwardsStars == stars_earned > 0

\* As OffersContinue, without the test for the last round.
OffersContinueMut == ~is_correct

\* start: the continue prompt is offered (not is_correct, and i < len(questions))
OffersContinue == ~is_correct /\ i < num_questions

----------------------------------------------------------------------------
(* State when main has parsed its arguments and built the api client *)

Init ==
    /\ pc = "main"
    /\ result = NoResult
    /\ num_questions = 0
    /\ i = 0
    /\ question = NoQuestion
    /\ user_input = <<>>
    /\ reprompts = 0
    /\ is_correct = FALSE
    /\ score = 0
    /\ total_questions = 0
    /\ correct_answers = 0
    /\ stars_earned = 0
    /\ in_handler = FALSE
    /\ end_game_runs = 0
    /\ submissions = <<>>
    /\ post_result = "none"
    /\ messages = {}
    /\ exit_status = "none"
    /\ difficulty_sum = 0
    /\ presented = 0
    /\ stopped = FALSE
    /\ interrupts = <<>>
    /\ pre = counters
    /\ accuracy = 0
    /\ on_scenario = TRUE
    /\ command \in Commands
    /\ attempts = 0
    /\ cmd_result = "none"

----------------------------------------------------------------------------
(* Parts of start and play_round that several steps run *)

\* end_game up to the stars/add call (which blocks), or to its end when no
\* stars were earned.  handler: it is called from "except KeyboardInterrupt".
EndGame(handler, msgs) ==
    /\ end_game_runs' = end_game_runs + 1
    /\ in_handler' = handler
    /\ accuracy' = AccuracyTenths(correct_answers, total_questions)
    /\ IF AwardsStars
       THEN /\ submissions' = Append(submissions, RewardSubmission)
            /\ messages' = msgs \cup {"summary"}
            /\ pc' = "posting"
       ELSE /\ submissions' = submissions
            /\ messages' = msgs \cup {"summary", "thanks"}
            /\ pc' = "returned"

\* As PlayRoundBegin, with the handler of an Exception ending the session as
\* the handler of an interrupt does: by end_game.
PlayRoundBeginMut(q, idx, msgs) ==
    /\ i' = idx
    /\ reprompts' = 0
    /\ user_input' = <<>>
    /\ IF q.wellformed
       THEN /\ pc' = "await_choice"
            /\ question' = q
            /\ presented' = presented + 1
            /\ pre' = counters
            /\ messages' = msgs
            /\ UNCHANGED <<in_handler, end_game_runs, submissions, accuracy>>
       ELSE /\ EndGame(TRUE, msgs \cup {"error_during_game"})
            /\ question' = NoQuestion
            /\ UNCHANGED <<presented, pre>>

\* play_round(question_data) up to its input(): display_question builds the
\* QuizQuestion (an Exception when the record does not fit, which start's
\* "except Exception" reports before returning, end_game not being called)
\* and prints it; then get_user_input blocks.  As said of msgs: the messages
\* printed so far.
PlayRoundBegin(q, idx, msgs) ==
    /\ i' = idx
    /\ reprompts' = 0
    /\ user_input' = <<>>
    /\ UNCHANGED <<in_handler, end_game_runs, submissions, accuracy>>
    /\ IF q.wellformed
       THEN /\ pc' = "await_choice"
            /\ question' = q
            /\ presented' = presented + 1
            /\ pre' = counters
            /\ messages' = msgs
       ELSE /\ pc' = "returned"
            /\ question' = NoQuestion
            /\ messages' = msgs \cup {"error_during_game"}
            /\ UNCHANGED <<presented, pre>>

----------------------------------------------------------------------------
(* Steps *)

\* start: time.sleep(2) ends; the questions call is made
StartSleepDone ==
    /\ pc = "start_sleep"
    /\ pc' = "fetching"
    /\ UNCHANGED <<result, num_questions, i, question, user_input, reprompts, is_correct,
                   score, total_questions, correct_answers, stars_earned,
                   in_handler, end_game_runs, submissions, post_result, messages,
                   exit_status, difficulty_sum, presented, stopped, interrupts, pre>>
    /\ UNCHANGED <<accuracy, on_scenario, command, attempts, cmd_result>>

\* start: get_questions returns a result that holds questions
FetchQuestions ==
    /\ pc = "fetching"
    /\ \E r \in FetchResults :
          /\ ~NoQuestionsAvailable(r)
          /\ result' = r
          /\ num_questions' = r.len
    /\ pc' = "loaded_sleep"
    /\ UNCHANGED <<i, question, user_input, reprompts, is_correct,
                   score, total_questions, correct_answers, stars_earned,
                   in_handler, end_game_runs, submissions, post_result, messages,
                   exit_status, difficulty_sum, presented, stopped, interrupts, pre>>
    /\ UNCHANGED <<accuracy, on_scenario, command, attempts, cmd_result>>

\* start: 'questions' is missing from the result, or empty: the message, and
\* start returns
FetchNoQuestions ==
    /\ pc = "fetching"
    /\ \E r \in FetchResults :
          /\ NoQuestionsAvailable(r)
          /\ result' = r
    /\ pc' = "returned"
    /\ messages' = messages \cup {"no_questions"}
    /\ UNCHANGED <<num_questions, i, question, user_input, reprompts, is_correct,
                   score, total_questions, correct_answers, stars_earned,
                   in_handler, end_game_runs, submissions, post_result,
                   exit_status, difficulty_sum, presented, stopped, interrupts, pre>>
    /\ UNCHANGED <<accuracy, on_scenario, command, attempts, cmd_result>>

\* As FetchFails, with the error raised to start for sys.exit(1): start's
\* "except Exception" reports it and returns.
FetchFailsMut ==
    /\ pc = "fetching"
    /\ \E kind \in {"http_error", "url_error", "unexpected_error"} :
          /\ result' = [NoResult EXCEPT !.status = kind]
          /\ messages' = messages \cup {"error_during_game"}
    /\ pc' = "returned"
    /\ UNCHANGED <<num_questions, i, question, user_input, reprompts, is_correct,
                   score, total_questions, correct_answers, stars_earned,
                   in_handler, end_game_runs, submissions, post_result, exit_status,
                   difficulty_sum, presented, stopped, interrupts, pre>>
    /\ UNCHANGED <<accuracy, on_scenario, command, attempts, cmd_result>>

\* _get: HTTPError, URLError or any other Exception (an undecodable body):
\* sys.exit(1), which no handler of start or main catches
FetchFails ==
    /\ pc = "fetching"
    /\ \E kind \in {"http_error", "url_error", "unexpected_error"} :
          /\ result' = [NoResult EXCEPT !.status = kind]
          /\ messages' = messages \cup {kind}
    /\ pc' = "exited"
    /\ exit_status' = "1"
    /\ UNCHANGED <<num_questions, i, question, user_input, reprompts, is_correct,
                   score, total_questions, correct_answers, stars_earned,
                   in_handler, end_game_runs, submissions, post_result,
                   difficulty_sum, presented, stopped, interrupts, pre>>
    /\ UNCHANGED <<accuracy, on_scenario, command, attempts, cmd_result>>

\* start: time.sleep(1) ends; the for loop begins with the first round (over
\* an empty list it ends at once, and end_game is called)
FirstRound ==
    /\ pc = "loaded_sleep"
    /\ IF num_questions > 0
       THEN \E q \in GatewayRecords : PlayRoundBegin(q, 1, messages)
       ELSE /\ EndGame(FALSE, messages)
            /\ UNCHANGED <<i, question, user_input, reprompts, presented, pre>>
    /\ UNCHANGED <<result, num_questions, is_correct,
                   score, total_questions, correct_answers, stars_earned,
                   post_result, exit_status, difficulty_sum, stopped,
                   interrupts>>
    /\ UNCHANGED <<on_scenario, command, attempts, cmd_result>>

\* get_user_input in play_round: the input is not one of valid_choices
ChoiceRejected ==
    /\ pc = "await_choice"
    /\ reprompts < MaxReprompts
    /\ \E raw \in RawInputs :
          /\ ~Accepted(ReadInput(raw), ValidChoices(question))
          /\ user_input' = ReadInput(raw)
    /\ reprompts' = reprompts + 1
    /\ UNCHANGED <<pc, result, num_questions, i, question, is_correct,
                   score, total_questions, correct_answers, stars_earned,
                   in_handler, end_game_runs, submissions, post_result, messages,
                   exit_status, difficulty_sum, presented, stopped, interrupts, pre>>
    /\ UNCHANGED <<accuracy, on_scenario, command, attempts, cmd_result>>

\* play_round from the accepted choice to time.sleep(2): the round is scored
ChoiceAccepted ==
    /\ pc = "await_choice"
    /\ \E raw \in RawInputs :
          /\ Accepted(ReadInput(raw), ValidChoices(question))
          /\ user_input' = ReadInput(raw)
    /\ is_correct' = IsCorrect(user_input', question)
    /\ total_questions' = total_questions + 1
    /\ IF is_correct'
       THEN /\ correct_answers' = correct_answers + 1
            /\ score' = score + Points(question)
            /\ stars_earned' = stars_earned + Stars(question, is_correct')
       ELSE UNCHANGED <<correct_answers, score, stars_earned>>
    /\ difficulty_sum' = difficulty_sum +
                            (IF is_correct' THEN CoerceDifficulty(question) ELSE 0)
    /\ on_scenario' = (on_scenario /\ FollowsScenario(total_questions', CoerceDifficulty(question), is_correct'))
    /\ pc' = "round_sleep"
    /\ UNCHANGED <<result, num_questions, i, question, reprompts,
                   in_handler, end_game_runs, submissions, post_result, messages,
                   exit_status, presented, stopped, interrupts, pre>>
    /\ UNCHANGED <<accuracy, command, attempts, cmd_result>>

\* start: play_round returned False before the last question: the continue
\* prompt is shown
OfferContinue ==
    /\ pc = "round_sleep"
    /\ OffersContinue
    /\ pc' = "await_continue"
    /\ question' = NoQuestion
    /\ user_input' = <<>>
    /\ reprompts' = 0
    /\ UNCHANGED <<result, num_questions, i, is_correct,
                   score, total_questions, correct_answers, stars_earned,
                   in_handler, end_game_runs, submissions, post_result, messages,
                   exit_status, difficulty_sum, presented, stopped, interrupts, pre>>
    /\ UNCHANGED <<accuracy, on_scenario, command, attempts, cmd_result>>

\* start: play_round returned True before the last question: the next round
NextRound ==
    /\ pc = "round_sleep"
    /\ is_correct
    /\ i < num_questions
    /\ \E q \in GatewayRecords : PlayRoundBegin(q, i + 1, messages)
    /\ UNCHANGED <<result, num_questions, is_correct,
                   score, total_questions, correct_answers, stars_earned,
                   post_result, exit_status, difficulty_sum, stopped, interrupts>>
    /\ UNCHANGED <<on_scenario, command, attempts, cmd_result>>

\* start: the last round returned: the loop ends and end_game is called
LastRoundDone ==
    /\ pc = "round_sleep"
    /\ ~(i < num_questions)
    /\ EndGame(FALSE, messages)
    /\ question' = NoQuestion
    /\ user_input' = <<>>
    /\ UNCHANGED <<result, num_questions, i, reprompts, is_correct,
                   score, total_questions, correct_answers, stars_earned,
                   post_result, exit_status, difficulty_sum, presented, stopped,
                   interrupts, pre>>
    /\ UNCHANGED <<on_scenario, command, attempts, cmd_result>>

\* get_user_input at the continue prompt: not one of y, n, yes, no
ContinueRejected ==
    /\ pc = "await_continue"
    /\ reprompts < MaxReprompts
    /\ \E raw \in RawInputs :
          /\ ~Accepted(ReadInput(raw), ContinueChoices)
          /\ user_input' = ReadInput(raw)
    /\ reprompts' = reprompts + 1
    /\ UNCHANGED <<pc, result, num_questions, i, question, is_correct,
                   score, total_questions, correct_answers, stars_earned,
                   in_handler, end_game_runs, submissions, post_result, messages,
                   exit_status, difficulty_sum, presented, stopped, interrupts, pre>>
    /\ UNCHANGED <<accuracy, on_scenario, command, attempts, cmd_result>>

\* start: the user answers y or yes: the next round
ContinueYes ==
    /\ pc = "await_continue"
    /\ \E raw \in RawInputs :
          /\ Accepted(ReadInput(raw), ContinueChoices)
          /\ ReadInput(raw) \notin StopChoices
    /\ \E q \in GatewayRecords : PlayRoundBegin(q, i + 1, messages)
    /\ UNCHANGED <<result, num_questions, is_correct,
                   score, total_questions, correct_answers, stars_earned,
                   post_result, exit_status, difficulty_sum, stopped, interrupts>>
    /\ UNCHANGED <<on_scenario, command, attempts, cmd_result>>

\* As ContinueNo, with return for break: end_game is not called.
ContinueNoMut ==
    /\ pc = "await_continue"
    /\ \E raw \in RawInputs :
          /\ Accepted(ReadInput(raw), ContinueChoices)
          /\ ReadInput(raw) \in StopChoices
          /\ user_input' = ReadInput(raw)
    /\ stopped' = TRUE
    /\ pc' = "returned"
    /\ UNCHANGED <<result, num_questions, i, question, reprompts, is_correct,
                   score, total_questions, correct_answers, stars_earned,
                   in_handler, end_game_runs, submissions, messages,
                   post_result, exit_status, difficulty_sum, presented,
                   interrupts, pre>>
    /\ UNCHANGED <<accuracy, on_scenario, command, attempts, cmd_result>>

\* start: the user answers n or no: break, and end_game is called
ContinueNo ==
    /\ pc = "await_continue"
    /\ \E raw \in RawInputs :
          /\ Accepted(ReadInput(raw), ContinueChoices)
          /\ ReadInput(raw) \in StopChoices
          /\ user_input' = ReadInput(raw)
    /\ stopped' = TRUE
    /\ EndGame(FALSE, messages)
    /\ UNCHANGED <<result, num_questions, i, question, reprompts, is_correct,
                   score, total_questions, correct_answers, stars_earned,
                   post_result, exit_status, difficulty_sum, presented,
                   interrupts, pre>>
    /\ UNCHANGED <<on_scenario, command, attempts, cmd_result>>

\* As PostAnswered, with the session's stars cleared once they are awarded.
PostAnsweredMut ==
    /\ pc = "posting"
    /\ \E r \in {"success", "not_success"} :
          /\ post_result' = r
          /\ messages' = messages \cup
                {IF r = "success" THEN "new_balance" ELSE "warning_balance", "thanks"}
          /\ stars_earned' = IF r = "success" THEN 0 ELSE stars_earned
    /\ pc' = "returned"
    /\ UNCHANGED <<result, num_questions, i, question, user_input, reprompts, is_correct,
                   score, total_questions, correct_answers,
                   in_handler, end_game_runs, submissions,
                   exit_status, difficulty_sum, presented, stopped, interrupts, pre>>
    /\ UNCHANGED <<accuracy, on_scenario, command, attempts, cmd_result>>

\* end_game: stars/add answers with a JSON object; success decides between
\* the new balance and the "could not update" warning; then end_game and
\* start return
PostAnswered ==
    /\ pc = "posting"
    /\ \E r \in {"success", "not_success"} :
          /\ post_result' = r
          /\ messages' = messages \cup
                {IF r = "success" THEN "new_balance" ELSE "warning_balance", "thanks"}
    /\ pc' = "returned"
    /\ UNCHANGED <<result, num_questions, i, question, user_input, reprompts, is_correct,
                   score, total_questions, correct_answers, stars_earned,
                   in_handler, end_game_runs, submissions,
                   exit_status, difficulty_sum, presented, stopped, interrupts, pre>>
    /\ UNCHANGED <<accuracy, on_scenario, command, attempts, cmd_result>>

\* end_game: stars/add answers with JSON that is no object: result.get raises,
\* which end_game's "except Exception" reports as a warning
PostAnsweredNoObject ==
    /\ pc = "posting"
    /\ post_result' = "no_object"
    /\ messages' = messages \cup {"warning_award", "thanks"}
    /\ pc' = "returned"
    /\ UNCHANGED <<result, num_questions, i, question, user_input, reprompts, is_correct,
                   score, total_questions, correct_answers, stars_earned,
                   in_handler, end_game_runs, submissions,
                   exit_status, difficulty_sum, presented, stopped, interrupts, pre>>
    /\ UNCHANGED <<accuracy, on_scenario, command, attempts, cmd_result>>

\* _post: HTTPError, URLError or any other Exception: sys.exit(1).  SystemExit
\* is no Exception: neither end_game's handler nor start's nor main's catches it
PostFails ==
    /\ pc = "posting"
    /\ \E kind \in {"http_error", "url_error", "unexpected_error"} :
          /\ post_result' = kind
          /\ messages' = messages \cup {kind}
    /\ pc' = "exited"
    /\ exit_status' = "1"
    /\ UNCHANGED <<result, num_questions, i, question, user_input, reprompts, is_correct,
                   score, total_questions, correct_answers, stars_earned,
                   in_handler, end_game_runs, submissions,
                   difficulty_sum, presented, stopped, interrupts, pre>>
    /\ UNCHANGED <<accuracy, on_scenario, command, attempts, cmd_result>>

\* main: the game command: QuizGame(api).start(...) up to its first sleep
RunGame ==
    /\ pc = "main"
    /\ command = "game"
    /\ pc' = "start_sleep"
    /\ UNCHANGED <<result, num_questions, i, question, user_input, reprompts, is_correct,
                   score, total_questions, correct_answers, stars_earned,
                   in_handler, end_game_runs, submissions, post_result, messages,
                   exit_status, difficulty_sum, presented, stopped, interrupts, pre,
                   accuracy, on_scenario, command, attempts, cmd_result>>

\* main: any other command: its one api call sends its request (_get or
\* _post: urlopen) and waits for the answer
CommandCall ==
    /\ pc = "main"
    /\ command # "game"
    /\ pc' = "requesting"
    /\ attempts' = attempts + 1
    /\ UNCHANGED <<result, num_questions, i, question, user_input, reprompts, is_correct,
                   score, total_questions, correct_answers, stars_earned,
                   in_handler, end_game_runs, submissions, post_result, messages,
                   exit_status, difficulty_sum, presented, stopped, interrupts, pre,
                   accuracy, on_scenario, command, cmd_result>>

\* _get / _post: a 2xx answer with a JSON body: the value is returned and
\* main prints it with print_json; main ends
CommandAnswered ==
    /\ pc = "requesting"
    /\ cmd_result' = "ok"
    /\ messages' = messages \cup {"result_printed"}
    /\ pc' = "returned"
    /\ UNCHANGED <<result, num_questions, i, question, user_input, reprompts, is_correct,
                   score, total_questions, correct_answers, stars_earned,
                   in_handler, end_game_runs, submissions, post_result,
                   exit_status, difficulty_sum, presented, stopped, interrupts, pre,
                   accuracy, on_scenario, command, attempts>>

\* As CommandFails, without sys.exit(1): the helper returns None after the
\* error is printed, and main prints it as the result.
CommandFailsMut ==
    /\ pc = "requesting"
    /\ \E kind \in {"http_error", "url_error", "unexpected_error"} :
          /\ cmd_result' = kind
          /\ messages' = messages \cup {kind, "result_printed"}
    /\ pc' = "returned"
    /\ UNCHANGED <<result, num_questions, i, question, user_input, reprompts, is_correct,
                   score, total_questions, correct_answers, stars_earned,
                   in_handler, end_game_runs, submissions, post_result, exit_status,
                   difficulty_sum, presented, stopped, interrupts, pre,
                   accuracy, on_scenario, command, attempts>>

\* _get / _post: HTTPError, URLError or any other Exception: the error is
\* printed to stderr and sys.exit(1) ends the process; nothing is returned
CommandFails ==
    /\ pc = "requesting"
    /\ \E kind \in {"http_error", "url_error", "unexpected_error"} :
          /\ cmd_result' = kind
          /\ messages' = messages \cup {kind}
    /\ pc' = "exited"
    /\ exit_status' = "1"
    /\ UNCHANGED <<result, num_questions, i, question, user_input, reprompts, is_correct,
                   score, total_questions, correct_answers, stars_earned,
                   in_handler, end_game_runs, submissions, post_result,
                   difficulty_sum, presented, stopped, interrupts, pre,
                   accuracy, on_scenario, command, attempts>>

\* KeyboardInterrupt while a command outside the game waits for its answer:
\* main's handler prints "Operation cancelled" and exits with status 1
InterruptCommand ==
    /\ pc = "requesting"
    /\ interrupts' = Append(interrupts, pc)
    /\ messages' = messages \cup {"cancelled"}
    /\ pc' = "exited"
    /\ exit_status' = "1"
    /\ UNCHANGED <<result, num_questions, i, question, user_input, reprompts, is_correct,
                   score, total_questions, correct_answers, stars_earned,
                   in_handler, end_game_runs, submissions, post_result,
                   difficulty_sum, presented, stopped, pre,
                   accuracy, on_scenario, command, attempts, cmd_result>>

\* KeyboardInterrupt in start before its try (the first sleep): main's handler
\* prints "Operation cancelled" and exits with status 1
InterruptBeforeTry ==
    /\ pc = "start_sleep"
    /\ interrupts' = Append(interrupts, pc)
    /\ messages' = messages \cup {"cancelled"}
    /\ pc' = "exited"
    /\ exit_status' = "1"
    /\ UNCHANGED <<result, num_questions, i, question, user_input, reprompts, is_correct,
                   score, total_questions, correct_answers, stars_earned,
                   in_handler, end_game_runs, submissions, post_result,
                   difficulty_sum, presented, stopped, pre>>
    /\ UNCHANGED <<accuracy, on_scenario, command, attempts, cmd_result>>

\* KeyboardInterrupt inside input(): get_user_input's handler calls sys.exit(0)
InterruptAtInput ==
    /\ pc \in {"await_choice", "await_continue"}
    /\ interrupts' = Append(interrupts, pc)
    /\ messages' = messages \cup {"interrupted_by_user"}
    /\ pc' = "exited"
    /\ exit_status' = "0"
    /\ UNCHANGED <<result, num_questions, i, question, user_input, reprompts, is_correct,
                   score, total_questions, correct_answers, stars_earned,
                   in_handler, end_game_runs, submissions, post_result,
                   difficulty_sum, presented, stopped, pre>>
    /\ UNCHANGED <<accuracy, on_scenario, command, attempts, cmd_result>>

\* KeyboardInterrupt inside start's try, outside input(): in the questions
\* call, in a sleep, or in end_game's stars/add call (_get, _post and end_game
\* catch Exception only): start's handler calls end_game
InterruptInTry ==
    /\ \/ pc \in {"fetching", "loaded_sleep", "round_sleep"}
       \/ pc = "posting" /\ ~in_handler
    /\ interrupts' = Append(interrupts, pc)
    /\ EndGame(TRUE, messages \cup {"interrupted_final"})
    /\ UNCHANGED <<result, num_questions, i, question, user_input, reprompts, is_correct,
                   score, total_questions, correct_answers, stars_earned,
                   post_result, exit_status, difficulty_sum, presented, stopped, pre>>
    /\ UNCHANGED <<on_scenario, command, attempts, cmd_result>>

\* KeyboardInterrupt in the end_game that start's handler called: it leaves
\* start, and main's handler exits with status 1
InterruptInHandler ==
    /\ pc = "posting"
    /\ in_handler
    /\ interrupts' = Append(interrupts, pc)
    /\ messages' = messages \cup {"cancelled"}
    /\ pc' = "exited"
    /\ exit_status' = "1"
    /\ UNCHANGED <<result, num_questions, i, question, user_input, reprompts, is_correct,
                   score, total_questions, correct_answers, stars_earned,
                   in_handler, end_game_runs, submissions, post_result,
                   difficulty_sum, presented, stopped, pre>>
    /\ UNCHANGED <<accuracy, on_scenario, command, attempts, cmd_result>>

Next ==
    \/ RunGame
    \/ CommandCall
    \/ CommandAnswered
    \/ CommandFails
    \/ InterruptCommand
    \/ StartSleepDone
    \/ FetchQuestions
    \/ FetchNoQuestions
    \/ FetchFails
    \/ FirstRound
    \/ ChoiceRejected
    \/ ChoiceAccepted
    \/ OfferContinue
    \/ NextRound
    \/ LastRoundDone
    \/ ContinueRejected
    \/ ContinueYes
    \/ ContinueNo
    \/ PostAnswered
    \/ PostAnsweredNoObject
    \/ PostFails
    \/ InterruptBeforeTry
    \/ InterruptAtInput
    \/ InterruptInTry
    \/ InterruptInHandler

Spec == Init /\ [][Next]_vars

TypeOK ==
    /\ pc \in {"main", "requesting", "start_sleep", "fetching", "loaded_sleep", "await_choice", "round_sleep",
               "await_continue", "posting", "returned", "exited"}
    /\ num_questions \in 0..MaxQuestions
    /\ result \in FetchResults \cup {NoResult} \cup
          { [NoResult EXCEPT !.status = k] : k \in {"http_error", "url_error", "unexpected_error"} }
    /\ i \in 0..num_questions
    /\ total_questions \in 0..num_questions
    /\ correct_answers \in 0..total_questions
    /\ exit_status \in {"none", "0", "1"}
    /\ (pc = "exited") = (exit_status # "none")

----------------------------------------------------------------------------
(* Claims *)

\* The process has ended: start returned to main, or sys.exit was called.
Finished == pc \in {"returned", "exited"}

\* The points of a session that lie after the questions were loaded.
AfterLoading == {"loaded_sleep", "await_choice", "round_sleep", "await_continue", "posting"}

\* C1: an interrupt arriving at any point after the questions were loaded
\* (also while get_user_input waits for a selection or a continue/stop
\* answer) leads to end_game being run, and with stars_earned > 0 to an
\* add_stars call: the process never ends with earned stars unsubmitted.
C1_InterruptReachesEndGame ==
    (Finished /\ interrupts # <<>> /\ interrupts[1] \in AfterLoading)
        => /\ end_game_runs > 0
           /\ stars_earned > 0 => submissions # <<>>

\* The kinds of failure of the stars/add call C2 names: no response, or a
\* response with a non-success HTTP status.
SubmissionFailures == {"url_error", "http_error"}

\* C2: when the reward submission fails, the failure is caught inside
\* end_game and reported as a warning; end_game runs to its end, start
\* returns normally and the process is not terminated.
C2_SubmissionFailureIsWarning ==
    post_result \in SubmissionFailures
        => /\ pc = "returned"
           /\ exit_status = "none"
           /\ "thanks" \in messages
           /\ {"warning_award", "warning_balance"} \cap messages # {}

\* C3: in one session add_stars is invoked at most once, whatever the
\* answers, choices and interrupts (also an interrupt that arrives while
\* end_game waits on the stars/add call).
C3_AtMostOneSubmission == Len(submissions) <= 1

\* C4: every reward submission carries amount = stars_earned (the summed
\* difficulties of the rounds answered correctly) and a reason with the final
\* correct_answers/total_questions; once end_game has run with
\* stars_earned > 0 a submission was made; with stars_earned = 0 none is
\* ever made (no zero-amount transaction).
C4_RewardMatchesStars ==
    /\ \A k \in 1..Len(submissions) :
          /\ submissions[k].amount > 0
          /\ submissions[k].amount = stars_earned
          /\ submissions[k].amount = difficulty_sum
          /\ submissions[k].reason.correct = correct_answers
          /\ submissions[k].reason.total = total_questions
    /\ (end_game_runs > 0 /\ stars_earned > 0) => submissions # <<>>
    /\ stars_earned = 0 => submissions = <<>>

\* A session of two correct answers ended with one submission of their stars.
C4_Witness ==
    /\ pc = "returned"
    /\ correct_answers = 2
    /\ total_questions = 3
    /\ Len(submissions) = 1
    /\ submissions[1].amount = stars_earned
    /\ post_result = "success"

\* C5: when the user declines to continue after an incorrect round that is
\* not the last, no further question is presented, end_game is run, and the
\* reward submitted is exactly the stars of the rounds played before the stop
\* (when that is > 0).
C5_StopStillRewards ==
    /\ [](stopped =>
            /\ end_game_runs > 0
            /\ pc \in {"posting", "returned", "exited"}
            /\ presented = total_questions
            /\ presented < num_questions
            /\ stars_earned > 0 =>
                  /\ submissions # <<>>
                  /\ \A k \in 1..Len(submissions) :
                        submissions[k].amount = difficulty_sum
            /\ stars_earned = 0 => submissions = <<>>)
    /\ [][stopped => presented' = presented /\ question' = question]_vars

\* The user stopped after the second of three rounds, with stars earned in
\* the first, and the session ended with their submission.
C5_Witness ==
    /\ stopped
    /\ pc = "returned"
    /\ num_questions = 3
    /\ total_questions = 2
    /\ stars_earned > 0
    /\ Len(submissions) = 1

\* The text is a number (decimal digits).
IsNumeric(s) == s # <<>> /\ \A k \in 1..Len(s) : IsDigit(s[k])

\* The input is a number inside [1, len(allOptions)].
InRange(s, q) == IsNumeric(s) /\ IntOf(s) \in 1..Len(q.allOptions)

\* C6: while a round awaits a selection, an input that is non-numeric or
\* outside [1, len(allOptions)] re-prompts for the same question and changes
\* none of the counters; the round advances only on an input inside the range.
C6_InvalidSelectionReprompts ==
    [][(pc = "await_choice" /\ interrupts' = interrupts) =>
          /\ ~InRange(user_input', question) =>
                /\ pc' = "await_choice"
                /\ question' = question
                /\ i' = i
                /\ presented' = presented
                /\ counters' = counters
          /\ pc' # "await_choice" =>
                /\ InRange(user_input', question)
                /\ total_questions' = total_questions + 1]_vars

\* The second round still awaits its selection after MaxReprompts rejected
\* inputs, the last one non-numeric, with the counters as the round found them.
C6_Witness ==
    /\ pc = "await_choice"
    /\ reprompts = MaxReprompts
    /\ user_input = <<"a">>
    /\ total_questions = 1
    /\ counters = pre

\* The level 1..5 a difficulty stands for, in either form.
DifficultyLevel(q) == CHOOSE d \in Difficulties : q.difficulty \in DifficultyForms(d)

\* C7: for every difficulty d in 1..5, an integer or its text, a completed
\* round adds 1 to total_questions; a correct answer adds 1 to
\* correct_answers, d*10 to score and d to stars_earned; an incorrect one
\* leaves correct_answers, score and stars_earned unchanged.
C7_RoundScoring ==
    pc = "round_sleep" =>
        LET d == DifficultyLevel(question) IN
        /\ total_questions = pre[2] + 1
        /\ is_correct =>
              /\ correct_answers = pre[3] + 1
              /\ score = pre[1] + d * 10
              /\ stars_earned = pre[4] + d
        /\ ~is_correct =>
              /\ correct_answers = pre[3]
              /\ score = pre[1]
              /\ stars_earned = pre[4]

\* A second round of textual difficulty "5" was answered correctly.
C7_Witness ==
    /\ pc = "round_sleep"
    /\ is_correct
    /\ question.difficulty.is_str
    /\ question.difficulty.text = <<"5">>
    /\ total_questions = 2
    /\ stars_earned = pre[4] + 5
    /\ score = pre[1] + 50

\* What the user types for the selections 1..4.
SelectionTexts == << <<"1">>, <<"2">>, <<"3">>, <<"4">> >>

\* C8: for every record and every valid 1-indexed selection s, the round is
\* judged correct iff s - 1 = correctAnswerIndex; with correctAnswerIndex = 2
\* and four options, selection 3 is correct and 1, 2 and 4 are not.
C8_SelectionJudged ==
    pc = "round_sleep" =>
        /\ \E s \in 1..Len(question.allOptions) : user_input = SelectionTexts[s]
        /\ \A s \in 1..Len(question.allOptions) :
              user_input = SelectionTexts[s] =>
                  (is_correct <=> s - 1 = question.correctAnswerIndex)
        /\ (question.correctAnswerIndex = 2 /\ Len(question.allOptions) = 4) =>
              (is_correct <=> user_input = <<"3">>)

\* Selection 3 of four options was judged correct for correctAnswerIndex = 2.
C8_Witness ==
    /\ pc = "round_sleep"
    /\ question.correctAnswerIndex = 2
    /\ Len(question.allOptions) = 4
    /\ user_input = <<"3">>
    /\ is_correct

\* C9: the continue/stop choice is offered exactly after the rounds answered
\* incorrectly that are not the last of the batch; a stop ends the session
\* with total_questions the number of rounds answered, and the remaining
\* questions change no counter.
C9_ContinueOfferedAfterWrong ==
    /\ [](pc = "await_continue" =>
            ~is_correct /\ i < num_questions /\ total_questions = i)
    /\ [][(pc = "round_sleep" /\ interrupts' = interrupts) =>
            ((pc' = "await_continue") <=> (~is_correct /\ i < num_questions))]_vars
    /\ [](stopped =>
            /\ total_questions = presented
            /\ total_questions = i
            /\ total_questions < num_questions)
    /\ [][stopped => counters' = counters]_vars

\* The user stopped after the first of three rounds; the session ended with
\* one question counted.
C9_Witness ==
    /\ stopped
    /\ pc = "returned"
    /\ num_questions = 3
    /\ total_questions = 1
    /\ correct_answers = 0
    /\ score = 0

\* C10: when the result of the questions call has no 'questions' or an
\* empty one, no round is played, the "no questions available" message is
\* printed, end_game is not run, no reward is submitted, and start returns
\* without raising.
C10_NoQuestionsNoSession ==
    (result.status = "ok" /\ (~result.has_questions \/ result.len = 0)) =>
        /\ pc = "returned"
        /\ exit_status = "none"
        /\ messages = {"no_questions"}
        /\ presented = 0
        /\ total_questions = 0
        /\ end_game_runs = 0
        /\ submissions = <<>>

\* The questions call returned an empty list and start returned.
C10_Witness ==
    /\ result.status = "ok"
    /\ result.has_questions
    /\ result.len = 0
    /\ pc = "returned"
    /\ "no_questions" \in messages

\* The ways the questions call fails: a non-success status, no response, or
\* a body that cannot be decoded.
RetrievalFailures == {"http_error", "url_error", "unexpected_error"}

\* C11: a transport failure, a non-success response or an undecodable body
\* of the questions call is fatal to the session: the process aborts with the
\* error printed, no round is played, the counters stay at zero and no reward
\* is submitted.
C11_RetrievalFailureIsFatal ==
    result.status \in RetrievalFailures =>
        /\ pc = "exited"
        /\ exit_status = "1"
        /\ result.status \in messages
        /\ presented = 0
        /\ counters = <<0, 0, 0, 0>>
        /\ end_game_runs = 0
        /\ submissions = <<>>

\* The questions call got a non-success response and the process ended.
C11_Witness ==
    /\ result.status = "http_error"
    /\ pc = "exited"
    /\ presented = 0
    /\ submissions = <<>>

\* C12: end_game, with the reward submission whatever its outcome, never
\* changes score, total_questions, correct_answers or stars_earned: from the
\* step that enters end_game on, the counters stay as they are.
C12_EndGameKeepsCounters ==
    [][(end_game_runs' > 0 \/ pc = "posting") => counters' = counters]_vars

\* A session with stars earned ended although the answer of stars/add could
\* not be read, and the counters are the ones the last round left.
C12_Witness ==
    /\ pc = "returned"
    /\ post_result = "no_object"
    /\ "warning_award" \in messages
    /\ stars_earned > 0
    /\ total_questions = 2
    /\ score = stars_earned * 10

\* C13: whenever end_game has run, the summary was printed (no fault); with
\* total_questions = 0 the accuracy is 0, and with c correct of n > 0 it is
\* 100*c/n to one decimal: the tenth nearest to it.
C13_AccuracyReported ==
    end_game_runs > 0 =>
        LET off == accuracy * total_questions - 1000 * correct_answers IN
        /\ "summary" \in messages
        /\ total_questions = 0 => accuracy = 0
        /\ total_questions > 0 =>
              2 * (IF off < 0 THEN 0 - off ELSE off) <= total_questions

\* The session was cancelled before the first answer, and end_game ran to
\* its end with no round played.
C13_Witness ==
    /\ interrupts = <<"loaded_sleep">>
    /\ end_game_runs = 1
    /\ total_questions = 0
    /\ accuracy = 0
    /\ pc = "returned"
    /\ "thanks" \in messages

\* C14: three questions of difficulties 2, 3, 1 answered correctly,
\* incorrectly (the user continuing), correctly: the session ends with
\* score 30, correct_answers 2, total_questions 3, stars_earned 3, accuracy
\* 66.7% and exactly one reward submission, of amount 3.
C14_ExampleSession ==
    (/\ on_scenario
     /\ num_questions = Len(Scenario)
     /\ total_questions = Len(Scenario)
     /\ interrupts = <<>>
     /\ Finished)
        => /\ score = 30
           /\ correct_answers = 2
           /\ total_questions = 3
           /\ stars_earned = 3
           /\ accuracy = 667
           /\ Len(submissions) = 1
           /\ submissions[1].amount = 3

\* The example session was played to its end and its stars were awarded.
C14_Witness ==
    /\ on_scenario
    /\ num_questions = 3
    /\ total_questions = 3
    /\ interrupts = <<>>
    /\ pc = "returned"
    /\ post_result = "success"
    /\ score = 30

\* The failures C15 names: no response, or a response that is not 2xx.
CallFailures == {"url_error", "http_error"}

\* C15: a command outside the game sends one request at most (no retry);
\* when the call fails, nothing is printed as a result and the process ends
\* with a non-zero status.
C15_CommandFailureExits ==
    command # "game" =>
        /\ attempts <= 1
        /\ cmd_result \in CallFailures =>
              /\ attempts = 1
              /\ pc = "exited"
              /\ exit_status = "1"
              /\ "result_printed" \notin messages

\* stars add found the Gateway unreachable and the process ended.
C15_Witness ==
    /\ command = "stars_add"
    /\ cmd_result = "url_error"
    /\ attempts = 1
    /\ pc = "exited"

\* C16: 0 <= correct_answers <= total_questions <= the number of fetched
\* questions and score = 10 * stars_earned in every state; the counters are
\* zero until the questions are loaded and never decrease.
C16_CountersConsistent ==
    /\ [](/\ 0 <= correct_answers
          /\ correct_answers <= total_questions
          /\ total_questions <= num_questions
          /\ score = 10 * stars_earned)
    /\ [](pc \in {"main", "start_sleep", "fetching", "loaded_sleep"} =>
             counters = <<0, 0, 0, 0>>)
    /\ [][/\ score' >= score
          /\ total_questions' >= total_questions
          /\ correct_answers' >= correct_answers
          /\ stars_earned' >= stars_earned]_vars

\* Three rounds were scored, two of them correct and of difficulty 5.
C16_Witness ==
    /\ pc = "round_sleep"
    /\ total_questions = 3
    /\ correct_answers = 2
    /\ stars_earned = 10
    /\ score = 100

\* A round raised before its question was displayed.
RoundRaised == i > presented

\* C17: when a round raises an error that is no interrupt before it is
\* scored, start reports the error and returns without end_game: no summary
\* and no reward submission, also with stars_earned > 0.
C17_RoundErrorSkipsEndGame ==
    RoundRaised =>
        /\ pc = "returned"
        /\ exit_status = "none"
        /\ "error_during_game" \in messages
        /\ "summary" \notin messages
        /\ end_game_runs = 0
        /\ submissions = <<>>

\* The second record could not be built after a first round that earned
\* stars; start returned.
C17_Witness ==
    /\ RoundRaised
    /\ i = 2
    /\ total_questions = 1
    /\ stars_earned > 0
    /\ pc = "returned"
    /\ submissions = <<>>

====
